---------------------------- MODULE Spec2Model ----------------------------
(***************************************************************************)
(* Model of the A-share stock screener (stock_screener.py) and of the      *)
(* numeric normalizer safe_float (data_fetcher.py).                        *)
(*                                                                         *)
(* Numbers are fixed-point: a Python number x is held as the integer 2*x   *)
(* ("halves"), so that the thresholds 0.5 and 1.5 of the PB rule are       *)
(* exact.  W(i) is the whole number i, H(i) is i + 0.5.                    *)
(*                                                                         *)
(* A text cell is a sequence of tokens: the digits, "-", the noise         *)
(* characters "%", "," and "Y" (the unit marker 亿), the words "nan" and   *)
(* "inf", and "x" (any other letter).                                      *)
(*                                                                         *)
(* Column names are ASCII stand-ins for the source's column names:         *)
(*   "code" 代码, "name" 名称, "price" 最新价, "change" 涨跌幅,            *)
(*   "pe" 市盈率-动态, "pb" 市净率, "cap" 总市值, "cap_yi" 总市值_亿,      *)
(*   "debt" 资产负债率, "score" 评分,                                      *)
(*   "roe_net" 净资产收益率, "ROE" ROE, "roe_w" 加权净资产收益率.          *)
(***************************************************************************)
EXTENDS Integers, Sequences, FiniteSets, TLC

VARIABLES
    pc,               \* position of the run
    sf_in, sf_out,    \* safe_float: the value passed, the outcome
    row, score_out,   \* calculate_score: the record passed, the outcome
    market,           \* the provider's whole-market dataset
    arg_scope, arg_filters, arg_sort_by, arg_top_n,   \* the arguments of screen / apply_filters
    fetched,          \* how the provider answered this run's load
    all_stocks_data,  \* StockScreener.all_stocks_data
    aliased,          \* local_df is the very object all_stocks_data refers to
    local_df,               \* the local df of screen / the result of apply_filters
    loaded,           \* all_stocks_data as load_stock_data left it (history)
    presort,          \* local_df as it was before sorting (history)
    results,          \* the list screen returns
    wrapper,          \* retry_on_failure: the module whose decorator wraps the function
    max_retries, delay,     \* the decorator's arguments
    attempt, last_error,    \* the wrapper's loop variable and the error it holds
    trace,            \* the invocations and waits made so far (history)
    outcome           \* how the wrapper ended

vars == <<pc, sf_in, sf_out, row, score_out, market, arg_scope, arg_filters, arg_sort_by,
          arg_top_n, fetched, all_stocks_data, aliased, local_df, loaded, presort, results,
          wrapper, max_retries, delay, attempt, last_error, trace, outcome>>

pureVars   == <<sf_in, sf_out, row, score_out>>
retryVars  == <<wrapper, max_retries, delay, attempt, last_error, trace, outcome>>
screenVars == <<market, arg_scope, arg_filters, arg_sort_by, arg_top_n, fetched, all_stocks_data,
                aliased, local_df, loaded, presort, results>>

----------------------------------------------------------------------------
(* Cell values *)

W(i) == 2 * i
H(i) == 2 * i + 1

Num(h)   == [k |-> "num", v |-> h, s |-> <<>>]      \* a finite int or float
NaN      == [k |-> "nan", v |-> 0, s |-> <<>>]      \* float('nan') / np.nan
PInf     == [k |-> "inf", v |-> 0, s |-> <<>>]      \* float('inf')
NInf     == [k |-> "ninf", v |-> 0, s |-> <<>>]     \* float('-inf')
None     == [k |-> "none", v |-> 0, s |-> <<>>]     \* Python None
Str(t)   == [k |-> "str", v |-> 0, s |-> t]         \* a str
PyList   == [k |-> "list", v |-> 0, s |-> <<>>]     \* a list of two numbers
PdSeries == [k |-> "series", v |-> 0, s |-> <<>>]   \* a pandas Series of two numbers
NdArray  == [k |-> "ndarray", v |-> 0, s |-> <<>>]  \* a numpy array (what to_numeric makes of a list)
Unset    == [k |-> "unset", v |-> 0, s |-> <<>>]    \* no value yet (model only)
Raise    == [k |-> "raise", v |-> 0, s |-> <<>>]    \* an exception escaped

IsFloat(x) == x.k \in {"num", "nan", "inf", "ninf"}

----------------------------------------------------------------------------
(* Parsing of text *)

Digits == {"0", "1", "2", "3", "4", "5", "6", "7", "8", "9"}

DigitVal(t) ==
    CASE t = "0" -> 0 [] t = "1" -> 1 [] t = "2" -> 2 [] t = "3" -> 3
      [] t = "4" -> 4 [] t = "5" -> 5 [] t = "6" -> 6 [] t = "7" -> 7
      [] t = "8" -> 8 [] t = "9" -> 9

RECURSIVE DigitsValue(_)
DigitsValue(t) ==
    IF t = <<>> THEN 0
    ELSE 10 * DigitsValue(SubSeq(t, 1, Len(t) - 1)) + DigitVal(t[Len(t)])

\* float(str): an optional sign, then digits, "nan" or "inf"; anything else
\* is a ValueError (Raise).
ParseFloat(t) ==
    LET neg  == t # <<>> /\ Head(t) = "-"
        body == IF neg THEN Tail(t) ELSE t
    IN  IF body = <<"nan">> THEN NaN
        ELSE IF body = <<"inf">> THEN (IF neg THEN NInf ELSE PInf)
        ELSE IF body # <<>> /\ \A i \in 1..Len(body) : body[i] \in Digits
             THEN Num((IF neg THEN -1 ELSE 1) * W(DigitsValue(body)))
        ELSE Raise

\* value.replace('%', '').replace(',', '').replace('亿', '')
StripNoise(t) == SelectSeq(t, LAMBDA c : c \notin {"%", ",", "Y"})

----------------------------------------------------------------------------
(* data_fetcher.safe_float *)

\* pd.isna(value) used as an if-condition: TRUE, FALSE, or "raise" when the
\* truth value of the element-wise answer is ambiguous (ValueError).
IsNaCondition(value) ==
    CASE value.k \in {"nan", "none"}                -> "true"
      [] value.k \in {"list", "series"}             -> "raise"
      [] OTHER                                      -> "false"

safe_float(value) ==
    \* value is None or value == '' or value == '--'; a Series compares
    \* element-wise and its truth value raises ValueError outside the try
    IF value.k = "none" THEN None
    ELSE IF value.k = "series" THEN Raise
    ELSE IF value.k = "str" /\ value.s \in {<<>>, <<"-", "-">>} THEN None
    ELSE \* try:
         IF IsNaCondition(value) = "raise" THEN None        \* except ValueError
         ELSE IF IsNaCondition(value) = "true" THEN None
         ELSE IF value.k = "str"
              THEN LET f == ParseFloat(StripNoise(value.s))
                   IN  IF f = Raise THEN None ELSE f         \* except ValueError
         ELSE IF value.k = "list" THEN None                  \* except TypeError
         ELSE value                                          \* float(number)

----------------------------------------------------------------------------
(* pandas / numpy primitives used by the screener *)

\* The number a text parses to under pd.to_numeric(..., errors='coerce'):
\* no noise is stripped; the empty string and unparseable text give NaN.
CoerceText(t) ==
    LET f == ParseFloat(t) IN IF f = Raise THEN NaN ELSE f

\* pd.to_numeric(value, errors='coerce') of one scalar: a number is returned
\* as it is, None and bad text give NaN; a list comes back as an array and a
\* Series as a Series.
to_numeric(value) ==
    CASE IsFloat(value)        -> value
      [] value.k = "none"      -> NaN
      [] value.k = "str"       -> CoerceText(value.s)
      [] value.k = "list"      -> NdArray
      [] OTHER                 -> value

\* One element of pd.to_numeric(df[column], errors='coerce'): whatever does
\* not parse (a nested list or Series too) is NaN.
to_numeric_element(value) ==
    CASE IsFloat(value)        -> value
      [] value.k = "str"       -> CoerceText(value.s)
      [] OTHER                 -> NaN

\* Comparisons of a float with a finite bound (IEEE: NaN compares false).
Lt(x, c) == (x.k = "num" /\ x.v < c) \/ x.k = "ninf"
Gt(x, c) == (x.k = "num" /\ x.v > c) \/ x.k = "inf"
Le(x, c) == (x.k = "num" /\ x.v <= c) \/ x.k = "ninf"
Ge(x, c) == (x.k = "num" /\ x.v >= c) \/ x.k = "inf"

----------------------------------------------------------------------------
(* StockScreener: column lookup and scoring *)

NoColumn == "<None>"

ROE_ALIASES == <<"roe_net", "ROE", "roe_w">>

RECURSIVE FirstIn(_, _)
FirstIn(columns, candidates) ==
    IF candidates = <<>> THEN NoColumn
    ELSE IF Head(candidates) \in columns THEN Head(candidates)
    ELSE FirstIn(columns, Tail(candidates))

\* _find_column(df, candidates): the first candidate among df.columns
_find_column(columns, candidates) == FirstIn(columns, candidates)

\* row.index.to_frame().columns: the frame made of an unnamed Index has the
\* single column 0; the record's own labels are that column's values.
IndexToFrameColumns(r) == {"0"}

\* _get_numeric_value(row, column)
_get_numeric_value(r, column) ==
    to_numeric(IF column \in DOMAIN r THEN r[column] ELSE NaN)

\* The outcome of one rule: the points it adds, or an exception.
Points(n)  == [raised |-> FALSE, add |-> n]
RuleRaised == [raised |-> TRUE, add |-> 0]

PEPoints(pe) ==
    IF pe.k # "nan" /\ Gt(pe, W(0))
    THEN IF Lt(pe, W(10)) THEN 15
         ELSE IF Lt(pe, W(15)) THEN 10
         ELSE IF Lt(pe, W(20)) THEN 5
         ELSE IF Gt(pe, W(50)) THEN -10
         ELSE 0
    ELSE 0

PBPoints(pb) ==
    IF pb.k # "nan" /\ Gt(pb, W(0))
    THEN IF Gt(pb, H(0)) /\ Lt(pb, H(1)) THEN 10
         ELSE IF Ge(pb, H(1)) /\ Lt(pb, W(3)) THEN 5
         ELSE IF Gt(pb, W(5)) THEN -5
         ELSE 0
    ELSE 0

ROEPoints(roe) ==
    IF roe.k # "nan"
    THEN IF Gt(roe, W(20)) THEN 15
         ELSE IF Gt(roe, W(15)) THEN 10
         ELSE IF Gt(roe, W(10)) THEN 5
         ELSE IF Lt(roe, W(5)) THEN -5
         ELSE 0
    ELSE 0

\* The model variant that pays the larger dip at exactly -5 as well.
ChangePoints_DipInclusive(change) ==
    IF change.k # "nan"
    THEN IF Gt(change, W(-5)) /\ Lt(change, W(0)) THEN 3
         ELSE IF Le(change, W(-5)) THEN 5
         ELSE 0
    ELSE 0

ChangePoints(change) ==
    IF change.k # "nan"
    THEN IF Gt(change, W(-5)) /\ Lt(change, W(0)) THEN 3
         ELSE IF Lt(change, W(-5)) THEN 5
         ELSE 0
    ELSE 0

\* np.isnan of an array or a Series is an array; taking its truth value
\* raises ValueError.
PERule(r) ==
    LET pe == _get_numeric_value(r, "pe")
    IN  IF IsFloat(pe) THEN Points(PEPoints(pe)) ELSE RuleRaised

PBRule(r) ==
    LET pb == _get_numeric_value(r, "pb")
    IN  IF IsFloat(pb) THEN Points(PBPoints(pb)) ELSE RuleRaised

ROERule(r) ==
    LET roe_col == _find_column(IndexToFrameColumns(r), ROE_ALIASES)
    IN  IF roe_col # NoColumn
        THEN LET roe == _get_numeric_value(r, roe_col)
             IN  IF IsFloat(roe) THEN Points(ROEPoints(roe)) ELSE RuleRaised
        ELSE Points(0)

ChangeRule(r) ==
    LET change == _get_numeric_value(r, "change")
    IN  IF IsFloat(change) THEN Points(ChangePoints(change)) ELSE RuleRaised

RuleOutcome(rule, r) ==
    CASE rule = "pe"     -> PERule(r)
      [] rule = "pb"     -> PBRule(r)
      [] rule = "roe"    -> ROERule(r)
      [] rule = "change" -> ChangeRule(r)

RULES == <<"pe", "pb", "roe", "change">>

\* The body of the try block: the rules in order; the first exception ends
\* the block with the score reached so far.
RECURSIVE TryRules(_, _, _)
TryRules(r, rules, score) ==
    IF rules = <<>> THEN [raised |-> FALSE, score |-> score]
    ELSE LET o == RuleOutcome(Head(rules), r)
         IN  IF o.raised THEN [raised |-> TRUE, score |-> score]
             ELSE TryRules(r, Tail(rules), score + o.add)

Max(a, b) == IF a >= b THEN a ELSE b
Min(a, b) == IF a <= b THEN a ELSE b

\* calculate_score(row): "return" with the clamped score; `except Exception:
\* pass` keeps an exception of the rules from escaping.
calculate_score_NoExcept(r) ==
    LET t == TryRules(r, RULES, 50)
    IN  IF t.raised THEN [k |-> "raise", v |-> 0]
        ELSE [k |-> "return", v |-> Max(0, Min(100, t.score))]

calculate_score(r) ==
    LET t == TryRules(r, RULES, 50)
    IN  [k |-> "return", v |-> Max(0, Min(100, t.score))]

----------------------------------------------------------------------------
(* DataFrames: a set of column names and a sequence of rows; a row keeps   *)
(* its index label idx (its position in the provider's dataset).           *)

Frame(columns, rows) == [columns |-> columns, rows |-> rows]
EmptyFrame == Frame({}, <<>>)                  \* pd.DataFrame()
NoFrame    == [none |-> TRUE]                  \* all_stocks_data = None

IsEmpty(df) == df.rows = <<>> \/ df.columns = {}          \* df.empty

\* df[column] = values: the column is added (or replaced) in every row;
\* values[i] is the value for the i-th row
WithColumn(df, column, values) ==
    Frame(df.columns \cup {column},
          [i \in 1..Len(df.rows) |->
              [idx |-> df.rows[i].idx,
               cells |-> [c \in df.columns \cup {column} |->
                             IF c = column THEN values[i]
                             ELSE df.rows[i].cells[c]]]])

\* row.get(column, default)
RowGet(r, column, default) ==
    IF column \in DOMAIN r.cells THEN r.cells[column] ELSE default

----------------------------------------------------------------------------
(* StockScreener: filtering *)

YI == 100000000

\* filters.get(key)
FiltersGet(filters, key) ==
    IF key \in DOMAIN filters THEN filters[key] ELSE None

\* numeric / 1e8 (the model's market caps are multiples of half a yi, so
\* the quotient is exact)
DivYi(x) == IF x.k = "num" THEN Num(x.v \div YI) ELSE x

\* The model variant that treats a missing column as a column of NaN.
_apply_numeric_filter_NoColumnCheck(df, column, min_val, max_val) ==
    LET numeric_col(r) == to_numeric_element(RowGet(r, column, NaN))
        after_min == IF min_val # None
                     THEN SelectSeq(df.rows, LAMBDA r : Ge(numeric_col(r), min_val.v))
                     ELSE df.rows
        after_max == IF max_val # None
                     THEN SelectSeq(after_min, LAMBDA r : Le(numeric_col(r), max_val.v))
                     ELSE after_min
    IN  Frame(df.columns, after_max)

\* The model variant whose comparisons let NaN through (not x < min).
_apply_numeric_filter_KeepNaN(df, column, min_val, max_val) ==
    IF column \notin df.columns THEN df
    ELSE LET numeric_col(r) == to_numeric_element(r.cells[column])
             after_min == IF min_val # None
                          THEN SelectSeq(df.rows, LAMBDA r : ~Lt(numeric_col(r), min_val.v))
                          ELSE df.rows
             after_max == IF max_val # None
                          THEN SelectSeq(after_min, LAMBDA r : ~Gt(numeric_col(r), max_val.v))
                          ELSE after_min
         IN  Frame(df.columns, after_max)

\* _apply_numeric_filter(df, column, min_val, max_val)
_apply_numeric_filter(df, column, min_val, max_val) ==
    IF column \notin df.columns THEN df
    ELSE LET numeric_col(r) == to_numeric_element(r.cells[column])
             after_min == IF min_val # None
                          THEN SelectSeq(df.rows, LAMBDA r : Ge(numeric_col(r), min_val.v))
                          ELSE df.rows
             after_max == IF max_val # None
                          THEN SelectSeq(after_min, LAMBDA r : Le(numeric_col(r), max_val.v))
                          ELSE after_min
         IN  Frame(df.columns, after_max)

\* apply_filters(df, filters): works on a copy of df
apply_filters(df, filters) ==
    LET f_pe   == _apply_numeric_filter(df, "pe",
                      FiltersGet(filters, "pe_min"), FiltersGet(filters, "pe_max"))
        f_pb   == _apply_numeric_filter(f_pe, "pb",
                      FiltersGet(filters, "pb_min"), FiltersGet(filters, "pb_max"))
        roe_col == _find_column(f_pb.columns, ROE_ALIASES)
        f_roe  == IF FiltersGet(filters, "roe_min") # None /\ roe_col # NoColumn
                  THEN _apply_numeric_filter(f_pb, roe_col, filters["roe_min"], None)
                  ELSE f_pb
        f_debt == _apply_numeric_filter(f_roe, "debt",
                      None, FiltersGet(filters, "debt_ratio_max"))
        f_cap  == IF /\ "cap" \in f_debt.columns
                     /\ \/ FiltersGet(filters, "market_cap_min") # None
                        \/ FiltersGet(filters, "market_cap_max") # None
                  THEN _apply_numeric_filter(
                          WithColumn(f_debt, "cap_yi",
                              [i \in 1..Len(f_debt.rows) |->
                                  DivYi(to_numeric_element(f_debt.rows[i].cells["cap"]))]),
                          "cap_yi",
                          FiltersGet(filters, "market_cap_min"),
                          FiltersGet(filters, "market_cap_max"))
                  ELSE f_debt
    IN  f_cap

----------------------------------------------------------------------------
(* StockScreener: loading *)

\* A scope token is a head ("all", "hs300", "custom:", ...) followed, for
\* "custom:", by comma-separated codes.
Scope(head, codes) == [head |-> head, codes |-> codes]

INDEX_CODE_MAP ==
    [n \in {"hs300", "zz500", "zz1000", "cyb", "kcb"} |->
        CASE n = "hs300" -> "000300" [] n = "zz500" -> "000905"
          [] n = "zz1000" -> "000852" [] n = "cyb" -> "399006"
          [] n = "kcb" -> "000688"]

\* scope.replace("custom:", "").split(","): splitting the empty text gives
\* one empty code
SplitCodes(scope) == IF scope.codes = <<>> THEN <<"">> ELSE scope.codes

SeqRange(t) == {t[i] : i \in 1..Len(t)}

\* all_stocks[all_stocks['代码'].isin(codes)]
RowsWithCodeIn(df, codes) ==
    Frame(df.columns,
          SelectSeq(df.rows, LAMBDA r : r.cells["code"].k = "str"
                                        /\ Len(r.cells["code"].s) = 1
                                        /\ r.cells["code"].s[1] \in codes))

\* The provider as one load sees it: the whole-market dataset, whether
\* fetching it succeeds, and the constituents of the index asked for
\* (cons_ok: whether fetching them succeeds).  An outcome stands for the
\* call after its retries.

\* _get_custom_stocks_data(codes): any exception gives an empty DataFrame
_get_custom_stocks_data(codes, env) ==
    IF env.fetch_ok /\ "code" \in env.market.columns
    THEN RowsWithCodeIn(env.market, SeqRange(codes))
    ELSE EmptyFrame

\* _get_index_stocks_data(index_code): any exception gives an empty DataFrame
_get_index_stocks_data(index_code, env) ==
    IF env.cons_ok /\ env.fetch_ok /\ "code" \in env.market.columns
    THEN RowsWithCodeIn(env.market, env.cons)
    ELSE EmptyFrame

\* The model variant in which an unknown scope keyword loads nothing.
load_stock_data_UnknownIsEmpty(scope, custom_codes, env) ==
    IF scope.head = "all" /\ scope.codes = <<>>
    THEN IF env.fetch_ok THEN [raised |-> FALSE, df |-> env.market]
         ELSE [raised |-> TRUE, df |-> EmptyFrame]
    ELSE IF scope.head \in DOMAIN INDEX_CODE_MAP /\ scope.codes = <<>>
    THEN [raised |-> FALSE,
          df |-> _get_index_stocks_data(INDEX_CODE_MAP[scope.head], env)]
    ELSE IF scope.head = "custom:" \/ custom_codes # <<>>
    THEN [raised |-> FALSE,
          df |-> _get_custom_stocks_data(
                    IF custom_codes # <<>> THEN custom_codes ELSE SplitCodes(scope), env)]
    ELSE [raised |-> FALSE, df |-> EmptyFrame]

\* load_stock_data(scope, custom_codes): the DataFrame returned; when not
\* raised it is also the object stored in all_stocks_data.
load_stock_data(scope, custom_codes, env) ==
    IF scope.head = "all" /\ scope.codes = <<>>
    THEN IF env.fetch_ok THEN [raised |-> FALSE, df |-> env.market]
         ELSE [raised |-> TRUE, df |-> EmptyFrame]
    ELSE IF scope.head \in DOMAIN INDEX_CODE_MAP /\ scope.codes = <<>>
    THEN [raised |-> FALSE,
          df |-> _get_index_stocks_data(INDEX_CODE_MAP[scope.head], env)]
    ELSE IF scope.head = "custom:" \/ custom_codes # <<>>
    THEN [raised |-> FALSE,
          df |-> _get_custom_stocks_data(
                    IF custom_codes # <<>> THEN custom_codes ELSE SplitCodes(scope), env)]
    ELSE IF env.fetch_ok THEN [raised |-> FALSE, df |-> env.market]
         ELSE [raised |-> TRUE, df |-> EmptyFrame]

----------------------------------------------------------------------------
(* StockScreener: sorting, truncating and projecting *)

IsNull(x) == x.k \in {"none", "nan"}                       \* pd.isna

\* The class of a non-null key: values of different classes do not compare
\* (TypeError), and comparing Series has no truth value (ValueError).
KeyClass(x) ==
    CASE x.k \in {"num", "inf", "ninf"} -> "number"
      [] OTHER                          -> x.k

\* Order of characters inside text: '%' < ',' < '-' < digits < letters < 亿
TokenRank(c) ==
    CASE c = "%" -> 1 [] c = "," -> 2 [] c = "-" -> 3
      [] c \in Digits -> 10 + DigitVal(c)
      [] c = "A" -> 30 [] c = "B" -> 31 [] c = "C" -> 32 [] c = "D" -> 33
      [] c = "inf" -> 40 [] c = "nan" -> 41 [] c = "x" -> 42
      [] OTHER -> 50

RECURSIVE TextLe(_, _)
TextLe(a, b) ==
    IF a = <<>> THEN TRUE
    ELSE IF b = <<>> THEN FALSE
    ELSE IF TokenRank(Head(a)) # TokenRank(Head(b))
         THEN TokenRank(Head(a)) < TokenRank(Head(b))
    ELSE TextLe(Tail(a), Tail(b))

\* a <= b for two non-null keys of one class
KeyLe(a, b) ==
    CASE a.k = "str" -> TextLe(a.s, b.s)
      [] a.k = "ninf" -> TRUE
      [] a.k = "inf"  -> b.k = "inf"
      [] a.k = "num"  -> b.k = "inf" \/ (b.k = "num" /\ a.v <= b.v)
      [] OTHER        -> TRUE

NonNullRows(rows, column) == SelectSeq(rows, LAMBDA r : ~IsNull(r.cells[column]))
NullRows(rows, column)    == SelectSeq(rows, LAMBDA r : IsNull(r.cells[column]))

\* Sorting compares keys: with two or more non-null keys, keys of different
\* classes (or Series) raise.
SortRaises(rows, column) ==
    LET nn == NonNullRows(rows, column)
    IN  /\ Len(nn) >= 2
        /\ \E i, j \in 1..Len(nn) :
              \/ KeyClass(nn[i].cells[column]) # KeyClass(nn[j].cells[column])
              \/ nn[i].cells[column].k = "series"

InKeyOrder(t, column, ascending) ==
    \A i \in 1..(Len(t) - 1) :
        IF ascending THEN KeyLe(t[i].cells[column], t[i + 1].cells[column])
        ELSE KeyLe(t[i + 1].cells[column], t[i].cells[column])

\* The orders sort_values(column, ascending=...) may return: the default
\* kind 'quicksort' orders the non-null keys and promises nothing about
\* equal keys; null keys come last (na_position='last') in their own order.
\* The few rows of a model dataset stand for a dataset of any size: numpy's
\* quicksort leaves equal keys in place only while it falls back to
\* insertion sort (16 elements or fewer).
SortOrders(rows, column, ascending) ==
    LET nn    == NonNullRows(rows, column)
        perms == {p \in [1..Len(nn) -> 1..Len(nn)] :
                     \A i, j \in 1..Len(nn) : i # j => p[i] # p[j]}
    IN  {t \o NullRows(rows, column) :
            t \in {u \in {[i \in 1..Len(nn) |-> nn[p[i]]] : p \in perms} :
                      InKeyOrder(u, column, ascending)}}

\* The column screen sorts by, NoColumn when it leaves the order alone
SortColumn(df, sort_by) ==
    CASE sort_by = "score" -> "score"
      [] sort_by = "pe" -> (IF "pe" \in df.columns THEN "pe" ELSE NoColumn)
      [] sort_by = "pb" -> (IF "pb" \in df.columns THEN "pb" ELSE NoColumn)
      [] sort_by = "market_cap" -> (IF "cap" \in df.columns THEN "cap" ELSE NoColumn)
      [] OTHER -> NoColumn

SortAscending(sort_by) == sort_by \in {"pe", "pb"}

\* df.head(n)
DfHead(df, n) ==
    Frame(df.columns,
          SubSeq(df.rows, 1, IF n >= 0 THEN Min(n, Len(df.rows))
                             ELSE Max(0, Len(df.rows) + n)))

\* The truth value of a cell ("raise": it has none)
Truthy(x) ==
    CASE x.k = "none"   -> "false"
      [] x.k = "num"    -> (IF x.v = 0 THEN "false" ELSE "true")
      [] x.k = "str"    -> (IF x.s = <<>> THEN "false" ELSE "true")
      [] x.k = "series" -> "raise"
      [] OTHER          -> "true"

\* float(value)
PyFloat(x) ==
    CASE IsFloat(x)    -> x
      [] x.k = "str"   -> ParseFloat(x.s)
      [] OTHER         -> Raise

\* n / d rounded to the nearest integer, ties to even (d > 0)
RoundDiv(n, d) ==
    LET q == n \div d
        r == n % d
    IN  IF 2 * r < d THEN q
        ELSE IF 2 * r > d THEN q + 1
        ELSE IF q % 2 = 0 THEN q ELSE q + 1

EmptyText == Str(<<>>)

\* round(float(row.get('总市值', 0)) / 100000000, 2) if row.get('总市值') else ''
\* The rounded value is held in hundredths (k = "hundredths").
MarketCapField(r) ==
    LET cap == RowGet(r, "cap", None)
    IN  IF Truthy(cap) = "raise" THEN Raise
        ELSE IF Truthy(cap) = "false" THEN EmptyText
        ELSE LET f == PyFloat(cap)
             IN  IF f.k = "num"
                 THEN [k |-> "hundredths", v |-> RoundDiv(f.v, 2 * (YI \div 100)), s |-> <<>>]
                 ELSE f

\* One element of results
Project(r) ==
    [code   |-> RowGet(r, "code", EmptyText),
     name   |-> RowGet(r, "name", EmptyText),
     price  |-> RowGet(r, "price", EmptyText),
     change |-> RowGet(r, "change", EmptyText),
     pe     |-> RowGet(r, "pe", EmptyText),
     pb     |-> RowGet(r, "pb", EmptyText),
     cap_yi |-> MarketCapField(r),
     score  |-> RowGet(r, "score", Num(W(50)))]

----------------------------------------------------------------------------
(* retry_on_failure: the wrapper both modules put around their provider    *)
(* calls.  The error raised by the n-th invocation is held as n; delays    *)
(* and waits are in seconds.                                               *)

NoError == 0                                   \* last_error = None

\* One entry of the history: an invocation of the wrapped function with how
\* it ended, or a completed time.sleep of d seconds
Invocation(n, r) == [e |-> "call", n |-> n, r |-> r, d |-> 0]
Slept(d)         == [e |-> "sleep", n |-> 0, r |-> "", d |-> d]

\* How the wrapped function may end: it returns, it raises an Exception, or
\* it raises a BaseException the except clause does not catch
FuncResults == {"returns", "raises", "escapes"}

Pending          == [k |-> "pending", what |-> "", n |-> 0]
Returned         == [k |-> "return", what |-> "value", n |-> 0]   \* return func(...)
ReturnedError(retries, err) ==                 \* return {"error": f"...{max_retries}...{last_error}"}
    [k |-> "return", what |-> "error", n |-> err, retries |-> retries]
Raised(what, err) == [k |-> "raise", what |-> what, n |-> err]

\* The model variant that waits after the last attempt as well.
WaitsBeforeRetry_Always(att, retries) == TRUE

\* if attempt < max_retries - 1
WaitsBeforeRetry(att, retries) == att < retries - 1

\* delay * (attempt + 1)
SleepLength(d, att) == d * (att + 1)

\* The statement after the loop: the screener's wrapper raises last_error
\* (raising None is a TypeError), the data fetcher's returns a mapping.
AfterLoop(w, retries, err) ==
    IF w = "screener"
    THEN IF err = NoError THEN Raised("TypeError", NoError)
         ELSE Raised("last_error", err)
    ELSE ReturnedError(retries, err)

----------------------------------------------------------------------------
(* Specification of safe_float: one call on a value drawn from the inputs *)

MaxStrLen == 2

Tokens == {"1", "5", "-", "%", ",", "Y", "nan", "inf", "x"}

RECURSIVE StringsOfLen(_)
StringsOfLen(n) ==
    IF n = 0 THEN {<<>>}
    ELSE {Append(t, c) : t \in StringsOfLen(n - 1), c \in Tokens}

Strings == UNION {StringsOfLen(n) : n \in 0..MaxStrLen}

SafeFloatInputs ==
    {Str(t) : t \in Strings}
      \cup {None, NaN, PInf, NInf, PyList, PdSeries}
      \cup {Num(h) : h \in {W(0), W(8), H(1), W(-3)}}

IdleSafeFloat == sf_in = Unset /\ sf_out = Unset
IdleScore     == row = <<>> /\ score_out = [k |-> "unset", v |-> 0]
IdleScreen ==
    /\ market = EmptyFrame /\ arg_scope = Scope("all", <<>>) /\ arg_filters = <<>>
    /\ arg_sort_by = "score" /\ arg_top_n = 0 /\ fetched = "unset"
    /\ all_stocks_data = NoFrame /\ aliased = FALSE /\ local_df = EmptyFrame
    /\ loaded = NoFrame /\ presort = EmptyFrame /\ results = <<>>

IdleRetry ==
    /\ wrapper = "none" /\ max_retries = 0 /\ delay = 0 /\ attempt = 0
    /\ last_error = NoError /\ trace = <<>> /\ outcome = Pending

InitSafeFloat ==
    /\ pc = "sf_call"
    /\ sf_in \in SafeFloatInputs
    /\ sf_out = Unset
    /\ IdleScore
    /\ IdleScreen
    /\ IdleRetry

CallSafeFloat ==
    /\ pc = "sf_call"
    /\ sf_out' = safe_float(sf_in)
    /\ pc' = "sf_done"
    /\ UNCHANGED <<sf_in, row, score_out, screenVars, retryVars>>

NextSafeFloat == CallSafeFloat

SpecSafeFloat == InitSafeFloat /\ [][NextSafeFloat]_vars

----------------------------------------------------------------------------
(* Specification of calculate_score: one call on a record drawn from the   *)
(* cells below; Absent marks a column the record does not have.            *)

Absent == [k |-> "absent", v |-> 0, s |-> <<>>]

Dash == Str(<<"-", "-">>)

PECells ==
    {Num(W(i)) : i \in {-3, 0, 8, 10, 12, 15, 17, 20, 35, 50, 60}}
      \cup {NaN, None, Dash, Str(<<"8">>), Str(<<"8", "%">>), PyList, PInf, Absent}

PBCells ==
    {Num(h) : h \in {W(0), H(0), W(1), H(1), W(2), W(3), W(4), W(5), W(6)}}
      \cup {NaN, Dash, PyList, Absent}

ROECells ==
    {Num(W(i)) : i \in {-1, 4, 5, 7, 10, 12, 15, 17, 20, 22}}
      \cup {NaN, None, Dash, PyList}

ChangeCells ==
    {Num(W(i)) : i \in {-7, -5, -3, 0, 2}} \cup {NaN, Dash, PyList, Absent}

ROEChoices ==
    {<<NoColumn, Absent>>}
      \cup {<<ROE_ALIASES[i], c>> : i \in 1..Len(ROE_ALIASES), c \in ROECells}

MakeRecord(pe, pb, roe, change) ==
    LET cols == {c \in {"pe", "pb", "change"} :
                    (CASE c = "pe" -> pe [] c = "pb" -> pb [] OTHER -> change) # Absent}
                  \cup (IF roe[1] = NoColumn THEN {} ELSE {roe[1]})
    IN  [c \in cols |->
            CASE c = "pe" -> pe [] c = "pb" -> pb [] c = "change" -> change
              [] OTHER -> roe[2]]

InitScore ==
    /\ pc = "score_call"
    /\ \E pe \in PECells, pb \in PBCells, roe \in ROEChoices, change \in ChangeCells :
          row = MakeRecord(pe, pb, roe, change)
    /\ score_out = [k |-> "unset", v |-> 0]
    /\ IdleSafeFloat
    /\ IdleScreen
    /\ IdleRetry

CallScore ==
    /\ pc = "score_call"
    /\ score_out' = calculate_score(row)
    /\ pc' = "score_done"
    /\ UNCHANGED <<row, sf_in, sf_out, screenVars, retryVars>>

NextScore == CallScore

SpecScore == InitScore /\ [][NextScore]_vars

----------------------------------------------------------------------------
(* The provider's datasets: up to MaxRows rows, each one of the row        *)
(* templates below cut to the dataset's columns.  Market caps are in yuan. *)

MaxRows == 2

Codes == <<"A", "B", "C", "D">>

Yuan(halfYi) == Num(halfYi * YI)          \* halfYi half-yi, in yuan (halves)

Template(pe, pb, roe, roe2, debt, cap, change) ==
    [pe |-> pe, pb |-> pb, roe |-> roe, roe2 |-> roe2, debt |-> debt,
     cap |-> cap, change |-> change]

Templates ==
    { Template(Num(W(8)), Num(W(1)), Num(W(22)), Num(W(3)), Num(W(40)), Yuan(10), Num(W(-3))),
      Template(Num(W(60)), Num(W(6)), Num(W(4)), Num(W(30)), Num(W(70)), Yuan(3), Num(W(2))),
      Template(Num(W(8)), Num(W(1)), Num(W(22)), Num(W(3)), Num(W(40)), Dash, Num(W(-3))),
      Template(Dash, Num(W(6)), Num(W(4)), Num(W(30)), Num(W(70)), Yuan(3), Num(W(2))),
      Template(NaN, Str(<<"x">>), None, Dash, Str(<<"5", "5", "%">>), Num(0), PyList),
      Template(Str(<<"1", "2">>), Num(H(1)), Str(<<"1", "2", "%">>), NaN, Num(W(50)),
               Yuan(4), NaN) }

ColumnChoices ==
    { {"code", "pe", "pb", "ROE", "debt", "cap", "change"},
      {"code", "pe", "pb", "cap", "change"},
      {"code", "pe", "ROE", "roe_w", "cap"},
      {"code", "pb", "change"} }

\* The cell of column c in the row made from template t for code i
TemplateCell(t, c, i) ==
    CASE c = "code"  -> Str(<<Codes[i]>>)
      [] c = "roe_w" -> t.roe2
      [] c \in {"ROE", "roe_net"} -> t.roe
      [] OTHER       -> t[c]

MakeFrame(columns, ts) ==
    Frame(columns,
          [i \in 1..Len(ts) |->
              [idx |-> i, cells |-> [c \in columns |-> TemplateCell(ts[i], c, i)]]])

Markets ==
    {MakeFrame(columns, ts) :
        columns \in ColumnChoices,
        ts \in UNION {[1..n -> Templates] : n \in 0..MaxRows}}

B(h) == Num(h)      \* a bound of a filter spec

FilterSpecs ==
    { <<>>,
      [pe_max |-> B(W(20))],
      [pe_min |-> B(W(10))],
      [pe_min |-> B(W(8)), pe_max |-> B(W(12))],
      [pb_max |-> B(W(3))],
      [pb_min |-> B(H(1))],
      [pb_min |-> B(H(0)), pb_max |-> B(H(1))],
      [roe_min |-> B(W(10))],
      [roe_min |-> B(W(0))],
      [debt_ratio_max |-> B(W(50))],
      [market_cap_min |-> B(W(2))],
      [market_cap_max |-> B(W(2))],
      [market_cap_min |-> B(H(1)), market_cap_max |-> B(W(5))],
      [pe_max |-> B(W(20)), roe_min |-> B(W(10))],
      [pe_max |-> B(W(20)), debt_ratio_max |-> B(W(50)), market_cap_min |-> B(W(2))],
      [dividend_min |-> B(W(2))],
      [pb_max |-> B(W(3)), roe_min |-> B(W(5)), market_cap_max |-> B(W(2))] }

----------------------------------------------------------------------------
(* Specification of apply_filters: one call on a dataset and a filter spec *)

InitFilter ==
    /\ pc = "filter_call"
    /\ market \in Markets
    /\ arg_filters \in FilterSpecs
    /\ arg_scope = Scope("all", <<>>) /\ arg_sort_by = "score" /\ arg_top_n = 0
    /\ fetched = "unset" /\ all_stocks_data = NoFrame /\ aliased = FALSE
    /\ local_df = EmptyFrame /\ loaded = NoFrame /\ presort = EmptyFrame
    /\ results = <<>>
    /\ IdleSafeFloat /\ IdleScore /\ IdleRetry

CallFilter ==
    /\ pc = "filter_call"
    /\ local_df' = apply_filters(market, arg_filters)
    /\ pc' = "filter_done"
    /\ UNCHANGED <<pureVars, retryVars, market, arg_scope, arg_filters, arg_sort_by, arg_top_n, fetched,
                   all_stocks_data, aliased, loaded, presort, results>>

NextFilter == CallFilter

SpecFilter == InitFilter /\ [][NextFilter]_vars

----------------------------------------------------------------------------
(* Specification of screen: one run, from the call to the return (pc =     *)
(* "done") or to an exception leaving screen (pc = "raised").              *)

ScopeTokens ==
    { Scope("all", <<>>), Scope("hs300", <<>>), Scope("custom:", <<"A">>),
      Scope("custom:", <<"B", "D">>), Scope("bogus", <<>>) }

\* filters: None (as the empty mapping: both are false) or a mapping
ScreenFilters ==
    { <<>>, [pe_max |-> B(W(20))], [roe_min |-> B(W(10)), market_cap_min |-> B(W(2))] }

SortKeys == {"score", "pe", "pb", "market_cap", "name"}

\* top_n: 0 stands for None as well (both are false)
TopNs == {0, 1, 2}

\* The load of screen: "custom:..." is split into codes by screen itself.
ScreenLoad(scope, env) ==
    IF scope.head = "custom:"
    THEN load_stock_data(Scope("custom", <<>>), SplitCodes(scope), env)
    ELSE load_stock_data(scope, <<>>, env)

Init ==
    /\ pc = "start"
    /\ market \in Markets
    /\ arg_scope \in ScopeTokens
    /\ arg_filters \in ScreenFilters
    /\ arg_sort_by \in SortKeys
    /\ arg_top_n \in TopNs
    /\ fetched = "unset"
    /\ all_stocks_data = NoFrame
    /\ aliased = FALSE
    /\ local_df = EmptyFrame
    /\ loaded = NoFrame
    /\ presort = EmptyFrame
    /\ results = <<>>
    /\ IdleSafeFloat /\ IdleScore /\ IdleRetry

\* df = self.load_stock_data(...); if df.empty: return []
Load ==
    /\ pc = "start"
    /\ \E fetch_ok \in BOOLEAN, cons_ok \in BOOLEAN,
          cons \in SUBSET {Codes[i] : i \in 1..Len(market.rows)} :
          LET env == [market |-> market, fetch_ok |-> fetch_ok,
                      cons_ok |-> cons_ok, cons |-> cons]
              r   == ScreenLoad(arg_scope, env)
          IN  /\ fetched' = (IF fetch_ok THEN "ok" ELSE "failed")
              /\ all_stocks_data' = (IF r.raised THEN all_stocks_data ELSE r.df)
              /\ loaded' = (IF r.raised THEN all_stocks_data ELSE r.df)
              /\ aliased' = ~r.raised
              /\ local_df' = r.df
              /\ pc' = (IF IsEmpty(r.df) THEN "done" ELSE "loaded")
    /\ UNCHANGED <<pureVars, retryVars, market, arg_scope, arg_filters, arg_sort_by, arg_top_n,
                   presort, results>>

\* if filters: df = self.apply_filters(df, filters); if df.empty: return []
Filter ==
    /\ pc = "loaded"
    /\ local_df' = (IF arg_filters # <<>> THEN apply_filters(local_df, arg_filters)
                    ELSE local_df)
    /\ aliased' = (aliased /\ arg_filters = <<>>)
    /\ pc' = (IF IsEmpty(local_df') THEN "done" ELSE "filtered")
    /\ UNCHANGED <<pureVars, retryVars, market, arg_scope, arg_filters, arg_sort_by, arg_top_n,
                   fetched, all_stocks_data, loaded, presort, results>>

\* df['评分'] = df.apply(self.calculate_score, axis=1): the column is set on
\* the object df refers to
ScoreRows ==
    /\ pc = "filtered"
    /\ local_df' = WithColumn(local_df, "score",
                              [i \in 1..Len(local_df.rows) |->
                                  Num(W(calculate_score(local_df.rows[i].cells).v))])
    /\ all_stocks_data' = (IF aliased THEN local_df' ELSE all_stocks_data)
    /\ presort' = local_df'
    /\ pc' = "scored"
    /\ UNCHANGED <<pureVars, retryVars, market, arg_scope, arg_filters, arg_sort_by, arg_top_n,
                   fetched, aliased, loaded, results>>

\* df = df.sort_values(...), when the key's column is there
Sort ==
    /\ pc = "scored"
    /\ LET column == SortColumn(local_df, arg_sort_by)
       IN  IF column = NoColumn
           THEN pc' = "sorted" /\ UNCHANGED <<local_df, aliased>>
           ELSE IF SortRaises(local_df.rows, column)
           THEN pc' = "raised" /\ UNCHANGED <<local_df, aliased>>
           ELSE /\ \E t \in SortOrders(local_df.rows, column, SortAscending(arg_sort_by)) :
                      local_df' = Frame(local_df.columns, t)
                /\ aliased' = FALSE
                /\ pc' = "sorted"
    /\ UNCHANGED <<pureVars, retryVars, market, arg_scope, arg_filters, arg_sort_by, arg_top_n,
                   fetched, all_stocks_data, loaded, presort, results>>

\* if top_n: df = df.head(top_n)
Truncate ==
    /\ pc = "sorted"
    /\ local_df' = (IF arg_top_n # 0 THEN DfHead(local_df, arg_top_n) ELSE local_df)
    /\ aliased' = (aliased /\ arg_top_n = 0)
    /\ pc' = "truncated"
    /\ UNCHANGED <<pureVars, retryVars, market, arg_scope, arg_filters, arg_sort_by, arg_top_n,
                   fetched, all_stocks_data, loaded, presort, results>>

\* for _, row in df.iterrows(): results.append({...}); return results
ProjectRows ==
    /\ pc = "truncated"
    /\ LET out == [i \in 1..Len(local_df.rows) |-> Project(local_df.rows[i])]
       IN  IF \E i \in 1..Len(out) : out[i].cap_yi = Raise
           THEN pc' = "raised" /\ UNCHANGED results
           ELSE pc' = "done" /\ results' = out
    /\ UNCHANGED <<pureVars, retryVars, market, arg_scope, arg_filters, arg_sort_by, arg_top_n,
                   fetched, all_stocks_data, aliased, local_df, loaded, presort>>

Next == Load \/ Filter \/ ScoreRows \/ Sort \/ Truncate \/ ProjectRows

Spec == Init /\ [][Next]_vars

----------------------------------------------------------------------------
(* Specification of retry_on_failure: one call of a wrapped function, from *)
(* the call to the wrapper's return or raise (pc = "rt_done").  The        *)
(* wrapped function's result is the environment's choice at each           *)
(* invocation.                                                             *)

MaxRetries == 3

Wrappers == {"screener", "fetcher"}

Delays == {-1, 0, 1, 2}

InitRetry ==
    /\ pc = "rt_loop"
    /\ wrapper \in Wrappers
    /\ max_retries \in 0..MaxRetries
    /\ delay \in Delays
    /\ attempt = 0                  \* for attempt in range(max_retries)
    /\ last_error = NoError         \* last_error = None
    /\ trace = <<>>
    /\ outcome = Pending
    /\ IdleSafeFloat /\ IdleScore /\ IdleScreen

\* try: return func(*args, **kwargs)
\* except Exception as e: last_error = e; if attempt < max_retries - 1: ...
CallFunc ==
    /\ pc = "rt_loop"
    /\ attempt < max_retries
    /\ \E r \in FuncResults :
          /\ trace' = Append(trace, Invocation(attempt + 1, r))
          /\ IF r = "returns"
             THEN /\ outcome' = Returned
                  /\ pc' = "rt_done"
                  /\ UNCHANGED <<attempt, last_error>>
             ELSE IF r = "escapes"
             THEN /\ outcome' = Raised("BaseException", attempt + 1)
                  /\ pc' = "rt_done"
                  /\ UNCHANGED <<attempt, last_error>>
             ELSE /\ last_error' = attempt + 1
                  /\ IF WaitsBeforeRetry(attempt, max_retries)
                     THEN pc' = "rt_sleep" /\ UNCHANGED attempt
                     ELSE pc' = "rt_loop" /\ attempt' = attempt + 1
                  /\ UNCHANGED outcome
    /\ UNCHANGED <<pureVars, screenVars, wrapper, max_retries, delay>>

\* time.sleep(delay * (attempt + 1)); a negative length is a ValueError,
\* raised inside the except clause and so out of the wrapper
Wait ==
    /\ pc = "rt_sleep"
    /\ IF SleepLength(delay, attempt) < 0
       THEN /\ outcome' = Raised("ValueError", NoError)
            /\ pc' = "rt_done"
            /\ UNCHANGED <<attempt, trace>>
       ELSE /\ trace' = Append(trace, Slept(SleepLength(delay, attempt)))
            /\ attempt' = attempt + 1
            /\ pc' = "rt_loop"
            /\ UNCHANGED outcome
    /\ UNCHANGED <<pureVars, screenVars, wrapper, max_retries, delay, last_error>>

\* The loop is over: raise last_error / return {"error": ...}
GiveUp ==
    /\ pc = "rt_loop"
    /\ attempt >= max_retries
    /\ outcome' = AfterLoop(wrapper, max_retries, last_error)
    /\ pc' = "rt_done"
    /\ UNCHANGED <<pureVars, screenVars, wrapper, max_retries, delay, attempt,
                   last_error, trace>>

NextRetry == CallFunc \/ Wait \/ GiveUp

\* The wrapper runs on: the interpreter takes its next step, and an
\* invocation of the wrapped function or a sleep it has begun comes back.
SpecRetry == InitRetry /\ [][NextRetry]_vars /\ WF_vars(NextRetry)

----------------------------------------------------------------------------
(* Claims about screen (Spec) *)

\* The cells of the dataset, other than codes, that are not numbers
MalformedCells(frame) ==
    {<<i, c>> \in (1..Len(frame.rows)) \X (frame.columns \ {"code"}) :
        ~IsFloat(frame.rows[i].cells[c])}

\* C5: a dataset in which one cell holds text (a sentinel such as '--') in
\* the PE, PB or total-market-cap column is screened, with any filters, sort
\* key and top_n, without an exception leaving screen.
C5_OneBadCellNeverAborts ==
    (/\ Cardinality(MalformedCells(market)) = 1
     /\ \A m \in MalformedCells(market) :
           /\ m[2] \in {"pe", "pb", "cap"}
           /\ market.rows[m[1]].cells[m[2]].k = "str")
        => pc # "raised"

IsUnknownScope(s) ==
    s.head \notin ({"all", "custom:"} \cup DOMAIN INDEX_CODE_MAP)

\* C7 (as claimed): an unknown scope keyword resolves to zero rows and
\* screen returns an empty list without raising.
C7_UnknownScopeIsEmpty ==
    (IsUnknownScope(arg_scope) /\ pc # "start")
        => (pc = "done" /\ results = <<>> /\ IsEmpty(local_df))

\* C7 (amended): an unknown scope keyword is loaded as the whole market:
\* when the acquisition succeeds the dataset stored and screened is the
\* provider's whole dataset; the scope resolves to zero rows, with screen
\* returning an empty list without raising, when the acquisition fails or
\* brings no rows.
C7_UnknownScopeLoadsWholeMarket ==
    (IsUnknownScope(arg_scope) /\ pc # "start") =>
        /\ fetched = "ok" => loaded = market
        /\ fetched = "failed" => loaded = NoFrame
        /\ pc = "loaded" => (local_df = market /\ market.rows # <<>>)
        /\ (fetched = "failed" \/ market.rows = <<>>)
              => (pc = "done" /\ results = <<>>)

\* C7 witness: a run with an unknown scope keyword returned two results.
C7_Witness ==
    /\ IsUnknownScope(arg_scope)
    /\ pc = "done"
    /\ fetched = "ok"
    /\ Len(results) = 2

\* C8: after screen returns, the dataset stored by load_stock_data has the
\* columns, rows and row order it had when loaded.
C8_CanonicalDatasetUnchanged ==
    pc = "done" => all_stocks_data = loaded

KeysEqual(a, b) == KeyLe(a, b) /\ KeyLe(b, a)

\* The stable order: rows of equal key keep their dataset order
StableOrder(rows, column, ascending) ==
    CHOOSE t \in SortOrders(rows, column, ascending) :
        \A i, j \in 1..Len(t) :
            (/\ i < j
             /\ ~IsNull(t[i].cells[column]) /\ ~IsNull(t[j].cells[column])
             /\ KeysEqual(t[i].cells[column], t[j].cells[column]))
                => t[i].idx < t[j].idx

\* C9: for a positive top_n and a sort key whose column is present, screen
\* keeps the first top_n rows of the whole filtered set in the order of the
\* key, rows of equal key in their dataset order.
C9_StableSortThenTruncate ==
    (/\ pc = "truncated"
     /\ arg_top_n > 0
     /\ SortColumn(presort, arg_sort_by) # NoColumn)
        => LET want == StableOrder(presort.rows, SortColumn(presort, arg_sort_by),
                                   SortAscending(arg_sort_by))
           IN  local_df.rows = SubSeq(want, 1, Min(arg_top_n, Len(want)))

----------------------------------------------------------------------------
(* Claims about calculate_score (SpecScore) *)

ROEColumnOf(r) == _find_column(DOMAIN r, ROE_ALIASES)

NoRuleRaises(r) == \A i \in 1..Len(RULES) : ~RuleOutcome(RULES[i], r).raised

RecordA == MakeRecord(Num(W(8)), Num(W(1)), <<"ROE", Num(W(22))>>, Num(W(-3)))
RecordB == MakeRecord(Num(W(60)), Num(W(6)), <<"ROE", Num(W(4))>>, Num(W(2)))

\* C1: a record that carries a numeric return-on-equity value under one of
\* the known aliases has the ROE points (+15 over 20, +10 over 15, +5 over
\* 10, -5 under 5, else 0) added to its score; the record A of the example
\* scores 93 and the record B scores 30.
C1_ROEPointsAdded ==
    (pc = "score_done" /\ NoRuleRaises(row) /\ ROEColumnOf(row) # NoColumn)
        => LET roe == to_numeric(row[ROEColumnOf(row)])
           IN  /\ (IsFloat(roe) /\ roe.k # "nan") =>
                      score_out.v =
                          Max(0, Min(100, 50 + PERule(row).add + PBRule(row).add
                                              + ROEPoints(roe) + ChangeRule(row).add))
               /\ row = RecordA => score_out.v = 93
               /\ row = RecordB => score_out.v = 30

\* C2: for every record and every combination of cell values, calculate_score
\* returns (no exception escapes) a value in the closed range 0..100.
C2_ScoreInRange ==
    pc = "score_done" => (score_out.k = "return" /\ score_out.v \in 0..100)

\* C2 witness: a record with an infinite PE, a sentinel PB, an array-valued
\* change (whose rule raises) has been scored.
C2_Witness ==
    /\ pc = "score_done"
    /\ DOMAIN row = {"pe", "pb", "change"}
    /\ row["pe"] = PInf /\ row["pb"] = Dash /\ row["change"] = PyList
    /\ score_out = [k |-> "return", v |-> 40]

RECURSIVE SumOfRulesThatDidNotFail(_, _)
SumOfRulesThatDidNotFail(r, rules) ==
    IF rules = <<>> THEN 0
    ELSE RuleOutcome(Head(rules), r).add + SumOfRulesThatDidNotFail(r, Tail(rules))

\* C6: the rules fail independently: the score is the clamped baseline 50
\* plus the points of every rule whose computation did not fail, whichever
\* rule failed.
C6_RulesFailIndependently ==
    pc = "score_done" =>
        score_out.v = Max(0, Min(100, 50 + SumOfRulesThatDidNotFail(row, RULES)))

\* The record with every cell replaced by the normalizer's number for it
\* (NaN where the normalizer says missing)
NormalizedRecord(r) ==
    [c \in DOMAIN r |-> LET n == safe_float(r[c])
                        IN  IF n.k = "none" THEN NaN ELSE n]

\* C11 (scoring side): the number calculate_score compares for a cell is the
\* normalizer's (safe_float): a record scores what the record of its
\* normalized cells scores.
C11_ScoreAgreesWithNormalizer ==
    (pc = "score_done" /\ NoRuleRaises(row)) =>
        score_out = calculate_score(NormalizedRecord(row))

\* The cells of the spec's tagged union: a number, a text or a missing value
ScalarCells(r) == \A c \in DOMAIN r : r[c].k \in {"num", "nan", "inf", "ninf", "none", "str"}

\* The number a rule reads from the record (NaN: missing)
Reading(r, column) == _get_numeric_value(r, column)

\* The points as the claim words them, over the number read
ClaimedPE(pe) ==
    CASE Gt(pe, W(0)) /\ Lt(pe, W(10))   -> 15
      [] Ge(pe, W(10)) /\ Lt(pe, W(15))  -> 10
      [] Ge(pe, W(15)) /\ Lt(pe, W(20))  -> 5
      [] Gt(pe, W(50))                   -> 0 - 10
      [] OTHER                           -> 0

ClaimedPB(pb) ==
    CASE Gt(pb, H(0)) /\ Lt(pb, H(1))    -> 10
      [] Ge(pb, H(1)) /\ Lt(pb, W(3))    -> 5
      [] Gt(pb, W(5))                    -> 0 - 5
      [] OTHER                           -> 0

ClaimedChange(chg) ==
    CASE Gt(chg, W(-5)) /\ Lt(chg, W(0)) -> 3
      [] Lt(chg, W(-5))                  -> 5
      [] OTHER                           -> 0

\* C12: for every record with no ROE column, calculate_score returns
\* clamp(50 + pe + pb + chg, 0, 100): pe is +15/+10/+5 for a positive PE below
\* 10/15/20, -10 above 50, else 0 (PE in [20, 50] too); pb is +10 in
\* (0.5, 1.5), +5 in [1.5, 3), -5 above 5, else 0; chg is +3 in (-5, 0), +5
\* below -5, else 0 (exactly -5 and any non-negative change too); a
\* non-positive or missing PE or PB and a missing change add 0.
C12_ScoreIsBaselinePlusThresholds ==
    (pc = "score_done" /\ ROEColumnOf(row) = NoColumn /\ ScalarCells(row)) =>
        /\ score_out.k = "return"
        /\ score_out.v =
              Max(0, Min(100, 50 + ClaimedPE(Reading(row, "pe"))
                                 + ClaimedPB(Reading(row, "pb"))
                                 + ClaimedChange(Reading(row, "change"))))

\* C12 witness: the record {PE: 20, PB: 1.5, change: -5}, every value on a
\* threshold, scored 55 (0 for the PE, +5 for the PB, 0 for the change).
C12_Witness ==
    /\ pc = "score_done"
    /\ row = MakeRecord(Num(W(20)), Num(H(1)), <<NoColumn, Absent>>, Num(W(-5)))
    /\ score_out = [k |-> "return", v |-> 55]

----------------------------------------------------------------------------
(* Claims about apply_filters (SpecFilter) *)

MinKeys == {"pe_min", "pb_min", "roe_min", "market_cap_min"}
MaxKeys == {"pe_max", "pb_max", "debt_ratio_max", "market_cap_max"}

\* The constraints, each with the keys that set its bounds
ConstraintKeys ==
    [g \in {"pe", "pb", "roe", "debt", "cap"} |->
        CASE g = "pe"   -> {"pe_min", "pe_max"}
          [] g = "pb"   -> {"pb_min", "pb_max"}
          [] g = "roe"  -> {"roe_min"}
          [] g = "debt" -> {"debt_ratio_max"}
          [] g = "cap"  -> {"market_cap_min", "market_cap_max"}]

\* The column of the dataset a constraint looks at, NoColumn when absent
TargetColumn(g, columns) ==
    CASE g = "roe" -> _find_column(columns, ROE_ALIASES)
      [] OTHER     -> (IF g \in columns THEN g ELSE NoColumn)

\* Bound b as the constraint g compares it: a market-cap bound is in yi
\* while the column is in yuan
BoundFor(g, b) == IF g = "cap" THEN b.v * YI ELSE b.v

\* C3: every row apply_filters returns has, for each constraint whose
\* column exists in the dataset and each bound set for it, a numeric value
\* (never a missing or non-numeric one) inside the inclusive bound; market
\* cap is compared as value / 1e8.
C3_ReturnedRowsWithinBounds ==
    pc = "filter_done" =>
        \A i \in 1..Len(local_df.rows) :
            \A g \in DOMAIN ConstraintKeys :
                \A key \in ConstraintKeys[g] \cap DOMAIN arg_filters :
                    LET col == TargetColumn(g, market.columns) IN
                    col # NoColumn =>
                        LET n == safe_float(local_df.rows[i].cells[col])
                        IN  /\ n.k \in {"num", "inf", "ninf"}
                            /\ key \in MinKeys => Ge(n, BoundFor(g, arg_filters[key]))
                            /\ key \in MaxKeys => Le(n, BoundFor(g, arg_filters[key]))

\* C3 witness: a market-cap range was applied to two rows, the first with
\* the sentinel '--' as its cap; only the second came back.
C3_Witness ==
    /\ pc = "filter_done"
    /\ arg_filters = [market_cap_min |-> B(H(1)), market_cap_max |-> B(W(5))]
    /\ Len(market.rows) = 2
    /\ "cap" \in market.columns
    /\ market.rows[1].cells["cap"] = Dash
    /\ Len(local_df.rows) = 1
    /\ local_df.rows[1].idx = 2
    /\ local_df.rows[1].cells["cap"] = Yuan(10)

WithoutKeys(spec, keys) == [k \in (DOMAIN spec) \ keys |-> spec[k]]

\* C4: a constraint whose column is absent from the dataset is skipped: the
\* result is the one the same spec gives with that constraint removed; when
\* every constraint set is of that kind, all rows are retained.
C4_AbsentColumnSkipped ==
    pc = "filter_done" =>
        /\ \A g \in DOMAIN ConstraintKeys :
              (TargetColumn(g, market.columns) = NoColumn)
                  => local_df = apply_filters(market,
                                              WithoutKeys(arg_filters, ConstraintKeys[g]))
        /\ (\A g \in DOMAIN ConstraintKeys :
               ConstraintKeys[g] \cap DOMAIN arg_filters # {}
                   => TargetColumn(g, market.columns) = NoColumn)
              => local_df.rows = market.rows

\* C4 witness: {roe_min: 10} was applied to two rows of a dataset with none
\* of the ROE columns, and both rows came back.
C4_Witness ==
    /\ pc = "filter_done"
    /\ arg_filters = [roe_min |-> B(W(10))]
    /\ TargetColumn("roe", market.columns) = NoColumn
    /\ Len(market.rows) = 2
    /\ local_df.rows = market.rows

\* Whether the normalizer's number for a cell is inside the bound b that
\* key sets for the constraint g; a cell the normalizer calls missing is not.
NormalizedWithin(cell, g, key, b) ==
    LET n == safe_float(cell)
    IN  /\ n.k \in {"num", "inf", "ninf"}
        /\ key \in MinKeys => Ge(n, BoundFor(g, b))
        /\ key \in MaxKeys => Le(n, BoundFor(g, b))

\* Whether a row passes every bound set for a column that exists, each cell
\* read through the normalizer
PassesByNormalizer(r, columns, filters) ==
    \A g \in DOMAIN ConstraintKeys :
        \A key \in ConstraintKeys[g] \cap DOMAIN filters :
            LET col == TargetColumn(g, columns)
            IN  col # NoColumn => NormalizedWithin(r.cells[col], g, key, filters[key])

IdxOf(rows) == [i \in 1..Len(rows) |-> rows[i].idx]

\* C11 (filter side): the number apply_filters compares for a cell is the
\* normalizer's (safe_float): the rows returned are exactly the rows whose
\* cells, with percent signs, thousands separators and the unit marker
\* stripped, are numbers inside the bounds, and a cell is missing exactly when
\* the normalizer says so.
C11_FilterAgreesWithNormalizer ==
    pc = "filter_done" =>
        IdxOf(local_df.rows) =
            IdxOf(SelectSeq(market.rows,
                            LAMBDA r : PassesByNormalizer(r, market.columns, arg_filters)))

----------------------------------------------------------------------------
(* Claims about safe_float (SpecSafeFloat) *)

\* C10: safe_float is total: for every input it never raises and returns
\* either a finite float or None.
C10_SafeFloatTotal ==
    pc = "sf_done" => sf_out.k \in {"num", "none"}

----------------------------------------------------------------------------
(* Claims about retry_on_failure (SpecRetry) *)

RetryDone == pc = "rt_done"

Invocations(t) == SelectSeq(t, LAMBDA ev : ev.e = "call")

AllRaised(t) == \A i \in 1..Len(t) : t[i].e = "call" => t[i].r = "raises"

\* What the history and the outcome may be for max_retries >= 1
RetrySafety ==
    (max_retries >= 1 /\ pc \in {"rt_loop", "rt_sleep", "rt_done"}) =>
        \* the function is invoked at most max_retries times
        /\ Len(Invocations(trace)) <= max_retries
        /\ \A i \in 1..Len(trace) :
              \* invocations and waits alternate; the wait before invocation
              \* k + 1 lasts delay * k and follows a failed invocation
              /\ i % 2 = 1 => (trace[i].e = "call" /\ trace[i].n = (i + 1) \div 2)
              /\ i % 2 = 0 => /\ trace[i] = Slept(delay * (i \div 2))
                              /\ trace[i - 1].r = "raises"
              \* nothing follows the invocation that returns: its result is
              \* what the wrapper returns
              /\ (trace[i].e = "call" /\ trace[i].r = "returns")
                    => (i = Len(trace) /\ RetryDone /\ outcome = Returned)
        /\ RetryDone =>
              \* no wait follows the last invocation
              /\ trace # <<>>
              /\ trace[Len(trace)].e = "call"
              \* after max_retries failures in a row: the screener's wrapper
              \* re-raises the last error, the data fetcher's returns a
              \* mapping with the key 'error'
              /\ (Len(Invocations(trace)) = max_retries /\ AllRaised(trace)) =>
                    outcome = (IF wrapper = "screener"
                               THEN Raised("last_error", max_retries)
                               ELSE ReturnedError(max_retries, max_retries))

\* C13: for max_retries >= 1 a wrapped function is invoked at most
\* max_retries times; no attempt follows the first one that returns, whose
\* result is returned; a wait of delay * k precedes attempt k + 1 and no wait
\* follows the last attempt; the wrapper always terminates: after max_retries
\* failures in a row the screener's wrapper re-raises the last error, the
\* data fetcher's returns an {'error': ...} value instead of raising.
C13_RetryBoundedAndTerminates ==
    /\ []RetrySafety
    /\ (max_retries >= 1) ~> RetryDone

\* C13 witness: with max_retries = 3 and delay = 2 the screener's wrapper
\* made three failing invocations, waited 2 s and 4 s between them, and
\* re-raised the third error.
C13_Witness ==
    /\ RetryDone
    /\ wrapper = "screener" /\ max_retries = 3 /\ delay = 2
    /\ trace = <<Invocation(1, "raises"), Slept(2), Invocation(2, "raises"), Slept(4),
                 Invocation(3, "raises")>>
    /\ outcome = Raised("last_error", 3)

=============================================================================
